---------------------------- MODULE Spec2Model ----------------------------
(***************************************************************************)
(* Model of the multilayer perceptron of rete_neurale.rs: the network      *)
(* (ReteNeurale), its constructors, the forward pass, backpropagation and  *)
(* the text codec (salva_pesi_txt / carica_pesi_txt).                      *)
(*                                                                         *)
(* Numbers are integers: an f64 is modelled by an integer, so that sums    *)
(* and products are exact. Text is a sequence of one-character strings, a  *)
(* file is a sequence of lines, and every str method the codec calls is    *)
(* an operator of the same name computed on those sequences.               *)
(***************************************************************************)
EXTENDS Integers, Sequences, FiniteSets, TLC

(***************************************************************************)
(* Bounds of the model.                                                    *)
(***************************************************************************)
\* most layers (input and output included) a constructor is given
MaxStrati == 3
\* most neurons of a layer a constructor is given
MaxNeuroni == 2
\* most calls of addestra in a run
MaxPassi == 1
\* addestra is called while no weight is larger than this in absolute value
MaxPeso == 4

(***************************************************************************)
(* Text: the str / String methods the codec uses.                          *)
(***************************************************************************)
FILE_INFO_RETE == <<"[", "#", "]", " ">>
FILE_INFO_APPRENDIMENTO == <<"[", "+", "]", " ">>
FILE_INFO_ATTIVAZIONE == <<"[", "*", "]", " ">>
FILE_STRATO == <<"-", "-", "-">>

Cifre == <<"0", "1", "2", "3", "4", "5", "6", "7", "8", "9">>

\* char::is_whitespace, on the characters of the model
is_whitespace(c) == c = " "

\* str::starts_with
starts_with(s, p) ==
    /\ Len(s) >= Len(p)
    /\ SubSeq(s, 1, Len(p)) = p

\* str::replace: every non-overlapping match of p, left to right, becomes r
RECURSIVE replace(_, _, _)
replace(s, p, r) ==
    IF s = <<>> THEN <<>>
    ELSE IF starts_with(s, p)
         THEN r \o replace(SubSeq(s, Len(p) + 1, Len(s)), p, r)
         ELSE <<Head(s)>> \o replace(Tail(s), p, r)

RECURSIVE split_da(_, _, _)
split_da(s, p, corrente) ==
    IF s = <<>> THEN <<corrente>>
    ELSE IF starts_with(s, p)
         THEN <<corrente>> \o split_da(SubSeq(s, Len(p) + 1, Len(s)), p, <<>>)
         ELSE split_da(Tail(s), p, Append(corrente, Head(s)))

\* str::split on a pattern: the pieces between the matches, empty ones kept
split(s, p) == split_da(s, p, <<>>)

RECURSIVE trim_start(_)
trim_start(s) ==
    IF s # <<>> /\ is_whitespace(Head(s)) THEN trim_start(Tail(s)) ELSE s

RECURSIVE trim_end(_)
trim_end(s) ==
    IF s # <<>> /\ is_whitespace(s[Len(s)])
    THEN trim_end(SubSeq(s, 1, Len(s) - 1))
    ELSE s

\* str::trim
trim(s) == trim_end(trim_start(s))

\* str::split_whitespace: the non-empty pieces between whitespace
split_whitespace(s) ==
    SelectSeq(split(s, <<" ">>), LAMBDA t : t # <<>>)

RECURSIVE join(_, _)
\* [String]::join
join(pezzi, sep) ==
    IF pezzi = <<>> THEN <<>>
    ELSE IF Len(pezzi) = 1 THEN pezzi[1]
    ELSE pezzi[1] \o sep \o join(Tail(pezzi), sep)

RECURSIVE concat(_)
\* the pieces one after the other (String += in a loop, Iterator::flatten)
concat(pezzi) ==
    IF pezzi = <<>> THEN <<>> ELSE Head(pezzi) \o concat(Tail(pezzi))

is_cifra(c) == \E d \in 1..10 : Cifre[d] = c

valore_cifra(c) == (CHOOSE d \in 1..10 : Cifre[d] = c) - 1

RECURSIVE valore_cifre(_, _)
valore_cifre(s, acc) ==
    IF s = <<>> THEN acc
    ELSE valore_cifre(Tail(s), 10 * acc + valore_cifra(Head(s)))

tutte_cifre(s) == s # <<>> /\ \A k \in 1..Len(s) : is_cifra(s[k])

RECURSIVE cifre_di(_)
cifre_di(n) ==
    IF n < 10 THEN <<Cifre[n + 1]>>
    ELSE Append(cifre_di(n \div 10), Cifre[(n % 10) + 1])

\* f64::to_string of a whole number: no point, no exponent, "-" when negative
f64_to_string(x) == IF x < 0 THEN <<"-">> \o cifre_di(-x) ELSE cifre_di(x)

\* str::parse::<f64> on the whole numbers: an optional sign, then digits.
\* [ok |-> FALSE] is the Err that the callers unwrap.
parse_f64(s) ==
    IF s # <<>> /\ Head(s) \in {"-", "+"}
    THEN IF tutte_cifre(Tail(s))
         THEN [ok |-> TRUE,
               val |-> IF Head(s) = "-" THEN -valore_cifre(Tail(s), 0)
                       ELSE valore_cifre(Tail(s), 0)]
         ELSE [ok |-> FALSE, val |-> 0]
    ELSE IF tutte_cifre(s) THEN [ok |-> TRUE, val |-> valore_cifre(s, 0)]
         ELSE [ok |-> FALSE, val |-> 0]

\* str::parse::<usize>: an optional "+", then digits
parse_usize(s) ==
    IF s # <<>> /\ Head(s) = "+"
    THEN IF tutte_cifre(Tail(s))
         THEN [ok |-> TRUE, val |-> valore_cifre(Tail(s), 0)]
         ELSE [ok |-> FALSE, val |-> 0]
    ELSE IF tutte_cifre(s) THEN [ok |-> TRUE, val |-> valore_cifre(s, 0)]
         ELSE [ok |-> FALSE, val |-> 0]


(***************************************************************************)
(* The activation functions (trait FunzioneAttivazione). A function is a   *)
(* record of its struct name and its alpha (0 for all but LeakyReLU).      *)
(* The transcendental ones take the value of the real function rounded to  *)
(* the integers of the model, ties to even: 1/(1+e^-x) is 1 for x >= 1    *)
(* and 0 for x <= 0.                                                       *)
(***************************************************************************)
Sigmoide == [tipo |-> "Sigmoide", alpha |-> 0]
ReLU == [tipo |-> "ReLU", alpha |-> 0]
LeakyReLU(a) == [tipo |-> "LeakyReLU", alpha |-> a]
Tanh == [tipo |-> "Tanh", alpha |-> 0]
Softplus == [tipo |-> "Softplus", alpha |-> 0]
Swish == [tipo |-> "Swish", alpha |-> 0]
Nessuna == [tipo |-> "Nessuna", alpha |-> 0]
Lineare == [tipo |-> "Lineare", alpha |-> 0]

\* 1.0 / (1.0 + (-x).exp()) on the integers
logistica(x) == IF x > 0 THEN 1 ELSE 0

\* x.tanh() on the integers
tanh_intero(x) == IF x > 0 THEN 1 ELSE IF x < 0 THEN -1 ELSE 0

\* FunzioneAttivazione::attiva
attiva(f, x) ==
    CASE f.tipo = "Sigmoide" -> logistica(x)
      [] f.tipo = "ReLU" -> IF x > 0 THEN x ELSE 0
      [] f.tipo = "LeakyReLU" -> IF x > 0 THEN x ELSE f.alpha * x
      [] f.tipo = "Tanh" -> tanh_intero(x)
      [] f.tipo = "Softplus" -> IF x > 0 THEN x ELSE IF x = 0 THEN 1 ELSE 0
      [] f.tipo = "Swish" -> x * logistica(x)
      [] f.tipo = "Nessuna" -> x
      [] f.tipo = "Lineare" -> x

\* FunzioneAttivazione::derivata
derivata(f, x) ==
    CASE f.tipo = "Sigmoide" -> attiva(f, x) * (1 - attiva(f, x))
      [] f.tipo = "ReLU" -> IF x > 0 THEN 1 ELSE 0
      [] f.tipo = "LeakyReLU" -> IF x > 0 THEN 1 ELSE f.alpha
      [] f.tipo = "Tanh" -> 1 - tanh_intero(x) * tanh_intero(x)
      [] f.tipo = "Softplus" -> logistica(x)
      [] f.tipo = "Swish" ->
            logistica(x) + x * logistica(x) * (1 - logistica(x))
      [] f.tipo = "Nessuna" -> 0
      [] f.tipo = "Lineare" -> 1

\* FunzioneAttivazione::sigla
sigla(f) ==
    CASE f.tipo = "Sigmoide" -> <<"S", "i", "g", "m", "o", "i", "d", "e">>
      [] f.tipo = "ReLU" -> <<"R", "e", "L", "U">>
      [] f.tipo = "LeakyReLU" -> <<"L", "e", "a", "k", "y", "R", "e", "L", "U">>
      [] f.tipo = "Tanh" -> <<"T", "a", "n", "h">>
      [] f.tipo = "Softplus" -> <<"S", "o", "f", "t", "p", "l", "u", "s">>
      [] f.tipo = "Swish" -> <<"S", "w", "i", "s", "h">>
      [] f.tipo = "Nessuna" -> <<"N", "u", "l", "l">>
      [] f.tipo = "Lineare" -> <<"L", "i", "n", "e", "a", "r", "e">>

\* FunzioneAttivazione::alfa
alfa(f) == f.alpha

(***************************************************************************)
(* Matrices (nalgebra DMatrix): the row and column counts and the buffer,  *)
(* which holds the entries column by column.                               *)
(***************************************************************************)
\* DMatrix::from_vec; the caller checks Len(dati) = righe * colonne, on
\* which nalgebra panics
from_vec(righe, colonne, dati) ==
    [nrows |-> righe, ncols |-> colonne, data |-> dati]

\* the entry of row r, column c
el(m, r, c) == m.data[(c - 1) * m.nrows + r]

\* DMatrix::from_fn
from_fn(righe, colonne, g) ==
    from_vec(righe, colonne,
             [k \in 1..(righe * colonne) |->
                 g[((k - 1) % righe) + 1, ((k - 1) \div righe) + 1]])

\* DMatrix::row_iter: the rows, each the sequence of its entries
row_iter(m) ==
    [r \in 1..m.nrows |-> [c \in 1..m.ncols |-> el(m, r, c)]]

\* DMatrix::transpose
transpose(m) ==
    from_fn(m.ncols, m.nrows, [r \in 1..m.ncols, c \in 1..m.nrows |-> el(m, c, r)])

RECURSIVE somma(_, _)
somma(g, n) == IF n = 0 THEN 0 ELSE g[n] + somma(g, n - 1)

\* matrix * vector; the caller checks m.ncols = Len(v), on which nalgebra
\* panics
per_vettore(m, v) ==
    [r \in 1..m.nrows |->
        somma([c \in 1..m.ncols |-> el(m, r, c) * v[c]], m.ncols)]

(***************************************************************************)
(* The network (struct ReteNeurale) and its constructors.                  *)
(***************************************************************************)
\* rng.gen_range(-1.0..1.0): the whole numbers of [-1, 1), drawn by a
\* generator whose state is the seed and the position of the draw
gen_range(seme, i, r, c) == ((seme + i + r + c) % 2) - 1

\* the loop that builds the weight matrices in both constructors
pesi_casuali(dimensioni_strati, seme) ==
    [i \in 1..(Len(dimensioni_strati) - 1) |->
        from_fn(dimensioni_strati[i + 1], dimensioni_strati[i],
                [r \in 1..dimensioni_strati[i + 1], c \in 1..dimensioni_strati[i] |->
                    gen_range(seme, i, r, c)])]

\* ReteNeurale::nuova_rete_uniforme
nuova_rete_uniforme(dimensioni_strati, tasso_apprendimento, funzione, seme) ==
    [strati |-> pesi_casuali(dimensioni_strati, seme),
     funzioni_attivazione |-> <<funzione>>,
     tasso_apprendimento |-> tasso_apprendimento,
     dimensioni_strati |-> dimensioni_strati]

\* ReteNeurale::nuova; info_strati is a sequence of Strato, records of
\* neuroni and funzione_attivazione
nuova(info_strati, tasso_apprendimento, seme) ==
    LET dimensioni_strati == [k \in 1..Len(info_strati) |-> info_strati[k].neuroni]
    IN  [strati |-> pesi_casuali(dimensioni_strati, seme),
         funzioni_attivazione |->
             [k \in 1..Len(info_strati) |->
                 IF k = 1 THEN Nessuna
                 ELSE info_strati[k].funzione_attivazione],
         tasso_apprendimento |-> tasso_apprendimento,
         dimensioni_strati |-> dimensioni_strati]

(***************************************************************************)
(* Saving.                                                                 *)
(***************************************************************************)
\* the code of a function with no parameter after it
codice_senza_alfa(f) == sigla(f) \o <<";", " ">>

\* the code salva_pesi_txt writes for one activation function
codice_attivazione(f) ==
    IF sigla(f) # <<"L", "e", "a", "k", "y", "R", "e", "L", "U">>
    THEN sigla(f) \o <<";", " ">>
    ELSE sigla(f) \o <<"_">> \o f64_to_string(alfa(f)) \o <<";", " ">>

\* format!("{:?}", Vec<usize>)
debug_vec_usize(v) ==
    <<"[">> \o join([k \in 1..Len(v) |-> cifre_di(v[k])], <<",", " ">>) \o <<"]">>

\* the lines salva_pesi_txt writes for one weight matrix
righe_strato(strato) ==
    [r \in 1..strato.nrows |->
        join([c \in 1..strato.ncols |-> f64_to_string(row_iter(strato)[r][c])],
             <<" ">>)]
    \o <<FILE_STRATO>>

\* ReteNeurale::salva_pesi_txt: the lines of the file it writes
salva_pesi_txt(rete) ==
    << FILE_INFO_APPRENDIMENTO \o <<" ">> \o f64_to_string(rete.tasso_apprendimento),
       FILE_INFO_ATTIVAZIONE \o <<" ">>
           \o concat([k \in 1..Len(rete.funzioni_attivazione) |->
                         codice_attivazione(rete.funzioni_attivazione[k])]),
       FILE_INFO_RETE \o <<" ">>
           \o replace(replace(debug_vec_usize(rete.dimensioni_strati), <<"[">>, <<>>),
                      <<"]">>, <<>>) >>
    \o concat([i \in 1..Len(rete.strati) |-> righe_strato(rete.strati[i])])


(***************************************************************************)
(* Loading. carica_pesi_txt reads the file line by line; its state between *)
(* two lines is the network (self), the matrices closed so far (strati),   *)
(* the rows of the open block (attuale_strato) and how it has ended:       *)
(* "corso" while it runs, "err" when it returns Err, "panic" when an       *)
(* unwrap, an index or nalgebra panics; punto names the place.             *)
(***************************************************************************)
fermo(st, esito, punto) == [st EXCEPT !.esito = esito, !.punto = punto]

\* the rows handed on as they are
trasponi_identica(matrice) == matrice

\* ReteNeurale::trasponi; the caller checks that no row is longer than the
\* first, on which the push into matrice_trasposta[i] panics
trasponi(matrice) ==
    IF matrice = <<>> THEN <<>>
    ELSE [i \in 1..Len(matrice[1]) |->
            LET righe == SelectSeq(matrice, LAMBDA riga : Len(riga) >= i)
            IN  [k \in 1..Len(righe) |-> righe[k][i]]]

\* the learning-rate line, taking every rate that is not below zero
linea_apprendimento_non_negativo(st, linea) ==
    LET pezzi == split(replace(linea, FILE_INFO_APPRENDIMENTO, <<>>), <<" ">>)
    IN  IF Len(pezzi) < 2 THEN fermo(st, "panic", "tasso")
        ELSE LET tasso == parse_f64(pezzi[2])
             IN  IF ~tasso.ok THEN fermo(st, "panic", "tasso")
                 ELSE IF tasso.val >= 0
                      THEN [st EXCEPT !.rete.tasso_apprendimento = tasso.val]
                      ELSE st

\* the line of the learning rate
linea_apprendimento(st, linea) ==
    LET pezzi == split(replace(linea, FILE_INFO_APPRENDIMENTO, <<>>), <<" ">>)
    IN  IF Len(pezzi) < 2 THEN fermo(st, "panic", "tasso")
        ELSE LET tasso == parse_f64(pezzi[2])
             IN  IF ~tasso.ok THEN fermo(st, "panic", "tasso")
                 ELSE IF tasso.val > 0
                      THEN [st EXCEPT !.rete.tasso_apprendimento = tasso.val]
                      ELSE st

\* the match on the name of an activation function
funzione_di_nome(nome) ==
    CASE nome = <<"S", "i", "g", "m", "o", "i", "d", "e">> -> Sigmoide
      [] nome = <<"R", "e", "L", "U">> -> ReLU
      [] nome = <<"T", "a", "n", "h">> -> Tanh
      [] nome = <<"S", "o", "f", "t", "p", "l", "u", "s">> -> Softplus
      [] nome = <<"S", "w", "i", "s", "h">> -> Swish
      [] nome = <<"L", "i", "n", "e", "a", "r", "e">> -> Lineare
      [] OTHER -> Nessuna

RECURSIVE nomi_funzioni(_, _)
\* the loop over the names of the activation line
nomi_funzioni(st, nomi) ==
    IF nomi = <<>> \/ st.esito # "corso" THEN st
    ELSE LET nome == replace(replace(Head(nomi), <<";">>, <<>>), <<" ">>, <<>>)
         IN  IF trim(nome) = <<>> THEN nomi_funzioni(st, Tail(nomi))
             ELSE IF starts_with(nome, <<"L", "e", "a", "k", "y", "R", "e", "L", "U", "_">>)
             THEN LET alfa_letto == parse_f64(split(nome, <<"_">>)[2])
                  IN  IF ~alfa_letto.ok THEN fermo(st, "panic", "alfa")
                      ELSE nomi_funzioni(
                             [st EXCEPT !.rete.funzioni_attivazione =
                                 Append(@, LeakyReLU(alfa_letto.val))],
                             Tail(nomi))
             ELSE nomi_funzioni(
                    [st EXCEPT !.rete.funzioni_attivazione =
                        Append(@, funzione_di_nome(nome))],
                    Tail(nomi))

\* the line of the activation functions
linea_attivazione(st, linea) ==
    nomi_funzioni(st,
        split(trim(replace(linea, FILE_INFO_ATTIVAZIONE, <<>>)), <<";", " ">>))

RECURSIVE info_strati_ok(_, _, _)
\* the loop that builds info_strati: FALSE when funzioni_attivazione[i] is
\* read out of range. k is the position in dimensioni_strati, i the index.
info_strati_ok(rete, k, i) ==
    IF k > Len(rete.dimensioni_strati) THEN TRUE
    ELSE IF i >= Len(rete.funzioni_attivazione) THEN FALSE
    ELSE info_strati_ok(rete, k + 1,
                        IF i < Len(rete.funzioni_attivazione) THEN i + 1 ELSE 0)

\* the line of the layer sizes
linea_rete(st, linea) ==
    LET cifre == split(trim(replace(linea, FILE_INFO_RETE, <<>>)), <<",", " ">>)
        lette == [k \in 1..Len(cifre) |-> parse_usize(cifre[k])]
    IN  IF \E k \in 1..Len(lette) : ~lette[k].ok
        THEN fermo(st, "panic", "dimensioni")
        ELSE IF Len(lette) > 0
        THEN LET dopo == [st EXCEPT !.rete.dimensioni_strati =
                             [k \in 1..Len(lette) |-> lette[k].val]]
             IN  IF info_strati_ok(dopo.rete, 1, 0) THEN dopo
                 ELSE fermo(dopo, "panic", "funzioni_attivazione")
        ELSE st

\* the separator line, keeping the accumulated rows for the next block
linea_strato_senza_azzeramento(st) ==
    LET num_righe == Len(st.attuale_strato)
    IN  IF num_righe = 0 THEN fermo(st, "err", "strato_vuoto")
        ELSE LET num_colonne == Len(st.attuale_strato[1])
             IN  IF \E r \in 1..num_righe : Len(st.attuale_strato[r]) > num_colonne
                 THEN fermo(st, "panic", "trasponi")
                 ELSE LET dati == concat(trasponi(st.attuale_strato))
                      IN  IF Len(dati) # num_righe * num_colonne
                          THEN fermo(st, "panic", "from_vec")
                          ELSE [st EXCEPT
                                  !.strati = Append(@, from_vec(num_righe, num_colonne, dati))]

\* the separator line, which closes the open block
linea_strato(st) ==
    LET num_righe == Len(st.attuale_strato)
    IN  IF num_righe = 0 THEN fermo(st, "err", "strato_vuoto")
        ELSE LET num_colonne == Len(st.attuale_strato[1])
             IN  IF \E r \in 1..num_righe : Len(st.attuale_strato[r]) > num_colonne
                 THEN fermo(st, "panic", "trasponi")
                 ELSE LET dati == concat(trasponi(st.attuale_strato))
                      IN  IF Len(dati) # num_righe * num_colonne
                          THEN fermo(st, "panic", "from_vec")
                          ELSE [st EXCEPT
                                  !.strati = Append(@, from_vec(num_righe, num_colonne, dati)),
                                  !.attuale_strato = <<>>]

\* a line of weights
linea_pesi(st, linea) ==
    LET valori == split_whitespace(linea)
        letti == [k \in 1..Len(valori) |-> parse_f64(valori[k])]
    IN  IF \E k \in 1..Len(letti) : ~letti[k].ok THEN fermo(st, "panic", "peso")
        ELSE [st EXCEPT !.attuale_strato =
                 Append(@, [k \in 1..Len(letti) |-> letti[k].val])]

\* the body of the loop over the lines
linea_letta(st, linea) ==
    IF starts_with(linea, FILE_INFO_APPRENDIMENTO) THEN linea_apprendimento(st, linea)
    ELSE IF starts_with(linea, FILE_INFO_ATTIVAZIONE) THEN linea_attivazione(st, linea)
    ELSE IF starts_with(linea, FILE_INFO_RETE) THEN linea_rete(st, linea)
    ELSE IF trim(linea) = FILE_STRATO THEN linea_strato(st)
    ELSE linea_pesi(st, linea)

RECURSIVE linee_lette(_, _)
linee_lette(st, righe) ==
    IF righe = <<>> \/ st.esito # "corso" THEN st
    ELSE linee_lette(linea_letta(st, Head(righe)), Tail(righe))

\* ReteNeurale::carica_pesi_txt on the network self and the file: how it
\* ends (esito, punto) and the network it leaves
carica_pesi_txt(self, file) ==
    IF ~file.esiste
    THEN [esito |-> "err", punto |-> "file_assente", rete |-> self]
    ELSE LET st == linee_lette(
                     [rete |-> [self EXCEPT !.funzioni_attivazione = <<>>],
                      strati |-> <<>>, attuale_strato |-> <<>>,
                      esito |-> "corso", punto |-> "-"],
                     file.righe)
         IN  IF st.esito = "corso"
             THEN [esito |-> "ok", punto |-> "-",
                   rete |-> [st.rete EXCEPT !.strati = st.strati]]
             ELSE [esito |-> st.esito, punto |-> st.punto, rete |-> st.rete]

\* ReteNeurale::carica: a new network, loaded, the Err unwrapped
carica(file) ==
    LET letta == carica_pesi_txt(nuova_rete_uniforme(<<0>>, 0, Sigmoide, 0), file)
    IN  IF letta.esito = "err" THEN [letta EXCEPT !.esito = "panic"] ELSE letta


(***************************************************************************)
(* The forward pass and backpropagation. Indices are those of the code,    *)
(* counted from 0. Besides what the code computes, each result records     *)
(* which index of funzioni_attivazione each stage looked up.               *)
(***************************************************************************)
\* the index after i when the wrap goes back to the input slot
indice_successivo_da_zero(rete, i) ==
    IF i < Len(rete.funzioni_attivazione) - 1 THEN i + 1
    ELSE 0

\* the index of funzioni_attivazione after a stage of the forward pass
indice_successivo(rete, i) ==
    IF i < Len(rete.funzioni_attivazione) - 1 THEN i + 1
    ELSE IF Len(rete.funzioni_attivazione) > 1 THEN 1
    ELSE 0

\* the index of funzioni_attivazione the forward pass starts from
indice_iniziale == 1

RECURSIVE avanti(_, _, _, _, _)
\* the loop of propagazione_avanti from weight matrix k (0-based) on: uscite
\* are the stages so far, indici the indices looked up so far
avanti(rete, k, i, uscite, indici) ==
    IF k >= Len(rete.strati)
    THEN [esito |-> "ok", punto |-> "-", uscite |-> uscite, indici |-> indici]
    ELSE LET pesi == rete.strati[k + 1]
             attivazione_corrente == uscite[Len(uscite)]
         IN  IF pesi.ncols # Len(attivazione_corrente)
             THEN [esito |-> "panic", punto |-> "pesi * attivazione_corrente",
                   uscite |-> uscite, indici |-> indici]
             ELSE IF pesi.nrows > 0 /\ i >= Len(rete.funzioni_attivazione)
             THEN [esito |-> "panic", punto |-> "funzioni_attivazione[i]",
                   uscite |-> uscite, indici |-> Append(indici, i)]
             ELSE LET input_strato == per_vettore(pesi, attivazione_corrente)
                      uscita == [r \in 1..Len(input_strato) |->
                                    attiva(rete.funzioni_attivazione[i + 1],
                                           input_strato[r])]
                  IN  avanti(rete, k + 1, indice_successivo(rete, i),
                             Append(uscite, uscita), Append(indici, i))

\* ReteNeurale::propagazione_avanti
propagazione_avanti(rete, input) ==
    avanti(rete, 0, indice_iniziale, <<input>>, <<>>)

\* ReteNeurale::elabora
elabora(rete, input) ==
    LET passata == propagazione_avanti(rete, input)
    IN  [esito |-> passata.esito, punto |-> passata.punto,
         uscita |-> IF passata.esito = "ok"
                    THEN passata.uscite[Len(passata.uscite)] ELSE <<>>,
         indici |-> passata.indici]

\* the index j of _retropropagazione at the top of an iteration of its loop
indice_precedente(rete, j) ==
    IF Len(rete.funzioni_attivazione) = 1 THEN 0
    ELSE IF j > 1 THEN j - 1
    ELSE Len(rete.funzioni_attivazione) - 1

\* the index j _retropropagazione starts from, for the final stage
indice_finale(rete) == Len(rete.funzioni_attivazione) - 1

\* *pesi += tasso_apprendimento * (delta * uscita_precedente.transpose())
pesi_aggiornati(pesi, tasso, delta, uscita_precedente) ==
    from_fn(pesi.nrows, pesi.ncols,
            [r \in 1..pesi.nrows, c \in 1..pesi.ncols |->
                el(pesi, r, c) + tasso * (delta[r] * uscita_precedente[c])])

\* the error handed to the layer before layer i: pesi.transpose() * delta
errore_propagato(pesi, delta) == per_vettore(transpose(pesi), delta)

\* errore.component_mul(&uscita.map(|x| f.derivata(x)))
delta_di(errore, uscita, f) ==
    [r \in 1..Len(errore) |-> errore[r] * derivata(f, uscita[r])]

RECURSIVE indietro_pesi_vecchi(_, _, _, _, _, _, _)
\* the loop going down, the error being propagated through the weights as
\* they were before their update
indietro_pesi_vecchi(rete, uscite, i, j0, delta, strati, traccia) ==
    IF i < 0
    THEN [esito |-> "ok", punto |-> "-", strati |-> strati,
          derivate |-> traccia.derivate, aggiornati |-> traccia.aggiornati]
    ELSE LET j == indice_precedente(rete, j0)
             uscita_precedente == uscite[i + 1]
             pesi == strati[i + 1]
         IN  IF pesi.nrows # Len(delta) \/ pesi.ncols # Len(uscita_precedente)
             THEN [esito |-> "panic", punto |-> "*pesi += ...", strati |-> strati,
                   derivate |-> traccia.derivate, aggiornati |-> traccia.aggiornati]
             ELSE LET nuovi == pesi_aggiornati(pesi, rete.tasso_apprendimento,
                                               delta, uscita_precedente)
                      dopo == [strati EXCEPT ![i + 1] = nuovi]
                  IN  IF i > 0
                      THEN indietro_pesi_vecchi(rete, uscite, i - 1, j,
                             delta_di(errore_propagato(pesi, delta), uscite[i + 1],
                                      rete.funzioni_attivazione[j + 1]),
                             dopo,
                             [derivate |-> Append(traccia.derivate,
                                                  [stadio |-> i, indice |-> j]),
                              aggiornati |-> Append(traccia.aggiornati, i)])
                      ELSE indietro_pesi_vecchi(rete, uscite, i - 1, j, delta, dopo,
                             [derivate |-> traccia.derivate,
                              aggiornati |-> Append(traccia.aggiornati, i)])

RECURSIVE indietro(_, _, _, _, _, _, _)
\* the loop of _retropropagazione at weight matrix i (0-based), going down:
\* strati are the matrices as updated so far, derivate the (stage, index)
\* pairs whose derivative has been taken, aggiornati the matrices updated
indietro(rete, uscite, i, j0, delta, strati, traccia) ==
    IF i < 0
    THEN [esito |-> "ok", punto |-> "-", strati |-> strati,
          derivate |-> traccia.derivate, aggiornati |-> traccia.aggiornati]
    ELSE LET j == indice_precedente(rete, j0)
             uscita_precedente == uscite[i + 1]
             pesi == strati[i + 1]
         IN  IF pesi.nrows # Len(delta) \/ pesi.ncols # Len(uscita_precedente)
             THEN [esito |-> "panic", punto |-> "*pesi += ...", strati |-> strati,
                   derivate |-> traccia.derivate, aggiornati |-> traccia.aggiornati]
             ELSE LET nuovi == pesi_aggiornati(pesi, rete.tasso_apprendimento,
                                               delta, uscita_precedente)
                      dopo == [strati EXCEPT ![i + 1] = nuovi]
                  IN  IF i > 0
                      THEN indietro(rete, uscite, i - 1, j,
                             delta_di(errore_propagato(nuovi, delta), uscite[i + 1],
                                      rete.funzioni_attivazione[j + 1]),
                             dopo,
                             [derivate |-> Append(traccia.derivate,
                                                  [stadio |-> i, indice |-> j]),
                              aggiornati |-> Append(traccia.aggiornati, i)])
                      ELSE indietro(rete, uscite, i - 1, j, delta, dopo,
                             [derivate |-> traccia.derivate,
                              aggiornati |-> Append(traccia.aggiornati, i)])

\* ReteNeurale::_retropropagazione
retropropagazione(rete, uscite, target) ==
    LET ultima == uscite[Len(uscite)]
        j == indice_finale(rete)
    IN  IF Len(rete.funzioni_attivazione) = 0
        THEN [esito |-> "panic", punto |-> "funzioni_attivazione.len()-1",
              strati |-> rete.strati, derivate |-> <<>>, aggiornati |-> <<>>]
        ELSE IF Len(target) # Len(ultima)
        THEN [esito |-> "panic", punto |-> "target - uscite", strati |-> rete.strati,
              derivate |-> <<>>, aggiornati |-> <<>>]
        ELSE indietro(rete, uscite, Len(rete.strati) - 1, j,
                      delta_di([r \in 1..Len(target) |-> target[r] - ultima[r]],
                               ultima, rete.funzioni_attivazione[j + 1]),
                      rete.strati,
                      [derivate |-> <<[stadio |-> Len(uscite) - 1, indice |-> j]>>,
                       aggiornati |-> <<>>])

\* addestra leaving every matrix turned on its side
addestra_di_traverso(rete, input, target) ==
    LET passata == propagazione_avanti(rete, input)
    IN  IF passata.esito # "ok"
        THEN [esito |-> passata.esito, punto |-> passata.punto,
              strati |-> rete.strati, indici |-> passata.indici,
              derivate |-> <<>>, aggiornati |-> <<>>]
        ELSE LET ritorno == retropropagazione(rete, passata.uscite, target)
             IN  [esito |-> ritorno.esito, punto |-> ritorno.punto,
                  strati |-> [k \in 1..Len(ritorno.strati) |->
                                 transpose(ritorno.strati[k])],
                  indici |-> passata.indici,
                  derivate |-> ritorno.derivate, aggiornati |-> ritorno.aggiornati]

\* ReteNeurale::addestra: how it ends, the weight matrices it leaves, the
\* indices the forward pass looked up (indici) and the derivatives taken
addestra(rete, input, target) ==
    LET passata == propagazione_avanti(rete, input)
    IN  IF passata.esito # "ok"
        THEN [esito |-> passata.esito, punto |-> passata.punto,
              strati |-> rete.strati, indici |-> passata.indici,
              derivate |-> <<>>, aggiornati |-> <<>>]
        ELSE LET ritorno == retropropagazione(rete, passata.uscite, target)
             IN  [esito |-> ritorno.esito, punto |-> ritorno.punto,
                  strati |-> ritorno.strati, indici |-> passata.indici,
                  derivate |-> ritorno.derivate, aggiornati |-> ritorno.aggiornati]


(***************************************************************************)
(* Files that reach the loader from outside the program: written by hand   *)
(* or damaged, in the grammar salva_pesi_txt writes.                       *)
(***************************************************************************)
\* three codes for two layers and one 1x1 block; the rate is 2
FileTreFunzioni ==
    << <<"[", "+", "]", " ", " ", "2">>,
       <<"[", "*", "]", " ", " ", "N", "u", "l", "l", ";", " ", "R", "e", "L", "U", ";", " ", "L", "i", "n", "e", "a", "r", "e", ";", " ">>,
       <<"[", "#", "]", " ", " ", "1", ",", " ", "1">>,
       <<"2">>,
       <<"-", "-", "-">> >>

\* a 1x1 block under layer sizes 2, 1
FilePesiDiscordi ==
    << <<"[", "+", "]", " ", " ", "1">>,
       <<"[", "*", "]", " ", " ", "N", "u", "l", "l", ";", " ", "L", "i", "n", "e", "a", "r", "e", ";", " ">>,
       <<"[", "#", "]", " ", " ", "2", ",", " ", "1">>,
       <<"1">>,
       <<"-", "-", "-">> >>

\* a code that is no activation function; the rate is -1
FileCodiceIgnoto ==
    << <<"[", "+", "]", " ", " ", "-", "1">>,
       <<"[", "*", "]", " ", " ", "N", "u", "l", "l", ";", " ", "F", "o", "o", ";", " ", "L", "e", "a", "k", "y", "R", "e", "L", "U", "_", "3", ";", " ">>,
       <<"[", "#", "]", " ", " ", "2", ",", " ", "1", ",", " ", "1">>,
       <<"1", " ", "0">>,
       <<"-", "-", "-">>,
       <<"2">>,
       <<"-", "-", "-">> >>

\* a LeakyReLU_ code whose alpha is no number
FileAlfaIgnoto ==
    << <<"[", "+", "]", " ", " ", "1">>,
       <<"[", "*", "]", " ", " ", "N", "u", "l", "l", ";", " ", "L", "e", "a", "k", "y", "R", "e", "L", "U", "_", "x", ";", " ">>,
       <<"[", "#", "]", " ", " ", "1", ",", " ", "1">>,
       <<"1">>,
       <<"-", "-", "-">> >>

\* a separator with no row since the separator before it
FileStratoVuoto ==
    << <<"[", "+", "]", " ", " ", "2">>,
       <<"[", "*", "]", " ", " ", "N", "u", "l", "l", ";", " ", "R", "e", "L", "U", ";", " ", "T", "a", "n", "h", ";", " ">>,
       <<"[", "#", "]", " ", " ", "1", ",", " ", "1", ",", " ", "1">>,
       <<"1">>,
       <<"-", "-", "-">>,
       <<"-", "-", "-">> >>

\* a block whose second row is shorter than its first
FileRigheDiscordi ==
    << <<"[", "+", "]", " ", " ", "1">>,
       <<"[", "*", "]", " ", " ", "N", "u", "l", "l", ";", " ", "L", "i", "n", "e", "a", "r", "e", ";", " ">>,
       <<"[", "#", "]", " ", " ", "2", ",", " ", "2">>,
       <<"1", " ", "2">>,
       <<"3">>,
       <<"-", "-", "-">> >>

\* one code for two layers, as a uniform network is saved
FileMenoFunzioni ==
    << <<"[", "+", "]", " ", " ", "1">>,
       <<"[", "*", "]", " ", " ", "L", "i", "n", "e", "a", "r", "e", ";", " ">>,
       <<"[", "#", "]", " ", " ", "1", ",", " ", "1">>,
       <<"1">>,
       <<"-", "-", "-">> >>

\* two 1x1 blocks under layer sizes 1, 1; the rate is 0
FileDueBlocchi ==
    << <<"[", "+", "]", " ", " ", "0">>,
       <<"[", "*", "]", " ", " ", "N", "u", "l", "l", ";", " ", "S", "w", "i", "s", "h", ";", " ">>,
       <<"[", "#", "]", " ", " ", "1", ",", " ", "1">>,
       <<"1">>,
       <<"-", "-", "-">>,
       <<"-", "1">>,
       <<"-", "-", "-">> >>

\* a 2x2 block whose transpose is another matrix; the rate is 1
FileQuadrato ==
    << <<"[", "+", "]", " ", " ", "1">>,
       <<"[", "*", "]", " ", " ", "N", "u", "l", "l", ";", " ", "L", "i", "n", "e", "a", "r", "e", ";", " ">>,
       <<"[", "#", "]", " ", " ", "2", ",", " ", "2">>,
       <<"1", " ", "2">>,
       <<"3", " ", "4">>,
       <<"-", "-", "-">> >>


FileEsterni ==
    {FileTreFunzioni,
     FilePesiDiscordi,
     FileCodiceIgnoto,
     FileAlfaIgnoto,
     FileStratoVuoto,
     FileRigheDiscordi,
     FileMenoFunzioni,
     FileDueBlocchi,
     FileQuadrato}

(***************************************************************************)
(* The program: one network variable, the file on disk, and the calls a    *)
(* caller makes on them. fase is "avvio" before the network is built,      *)
(* "pronta" while it lives, "abortito" once a call has panicked. ultimo    *)
(* records the last call: its name, arguments, outcome, the network        *)
(* before it, and what the forward pass and backpropagation looked up.     *)
(* disco is the file: whether it exists, its lines, and where it comes     *)
(* from: "esterna", or "salvata" together with the network that wrote it.  *)
(***************************************************************************)
VARIABLES rete, disco, fase, ultimo, passi

vars == <<rete, disco, fase, ultimo, passi>>

\* the activation functions the constructors are given
FunzioniDate == {LeakyReLU(1), Lineare}

\* the learning rates the constructors are given
TassiDati == {0, 1}

\* the seeds of the random generator
Semi == {0}

\* the layer sizes the constructors are given: n layers whose sizes cycle
\* through 1..MaxNeuroni from s
dimensioni_date(n, s) == [k \in 1..n |-> ((k + s) % MaxNeuroni) + 1]

\* the vectors elabora and addestra are given
VettoriDati == {[k \in 1..n |-> 1] : n \in 1..(MaxNeuroni + 1)}

NessunaRete ==
    [strati |-> <<>>, funzioni_attivazione |-> <<>>,
     tasso_apprendimento |-> 0, dimensioni_strati |-> <<>>]

chiamata(op, esito, punto) ==
    [op |-> op, esito |-> esito, punto |-> punto, prima |-> rete,
     input |-> <<>>, target |-> <<>>, uscita |-> <<>>, indici |-> <<>>,
     derivate |-> <<>>, aggiornati |-> <<>>]

dopo_esito(esito) == IF esito = "panic" THEN "abortito" ELSE "pronta"

Init ==
    /\ rete = NessunaRete
    /\ disco \in {[esiste |-> FALSE, righe |-> <<>>, origine |-> "nessuna",
                    autore |-> NessunaRete]}
                 \cup {[esiste |-> TRUE, righe |-> f, origine |-> "esterna",
                         autore |-> NessunaRete] : f \in FileEsterni}
    /\ fase = "avvio"
    /\ ultimo = [chiamata("avvio", "ok", "-") EXCEPT !.prima = NessunaRete]
    /\ passi = 0

\* rete = ReteNeurale::nuova(info_strati, tasso)
Nuova ==
    /\ fase = "avvio"
    /\ \E n \in 2..MaxStrati, s \in 0..(MaxNeuroni - 1), tasso \in TassiDati,
          nascosta \in FunzioniDate, finale \in FunzioniDate, seme \in Semi :
          LET info_strati ==
                  [k \in 1..n |->
                      [neuroni |-> dimensioni_date(n, s)[k],
                       funzione_attivazione |->
                           IF k = n THEN finale ELSE nascosta]]
          IN  rete' = nuova(info_strati, tasso, seme)
    /\ fase' = "pronta"
    /\ ultimo' = chiamata("nuova", "ok", "-")
    /\ UNCHANGED <<disco, passi>>

\* rete = ReteNeurale::nuova_rete_uniforme(dimensioni, tasso, funzione)
NuovaReteUniforme ==
    /\ fase = "avvio"
    /\ \E n \in 2..MaxStrati, s \in 0..(MaxNeuroni - 1), tasso \in TassiDati,
          funzione \in FunzioniDate, seme \in Semi :
          rete' = nuova_rete_uniforme(dimensioni_date(n, s), tasso, funzione, seme)
    /\ fase' = "pronta"
    /\ ultimo' = chiamata("nuova_rete_uniforme", "ok", "-")
    /\ UNCHANGED <<disco, passi>>

\* rete = ReteNeurale::carica(file)
Carica ==
    /\ fase \in {"avvio", "pronta"}
    /\ LET letta == carica(disco)
       IN  /\ rete' = letta.rete
           /\ fase' = dopo_esito(letta.esito)
           /\ ultimo' = chiamata("carica", letta.esito, letta.punto)
    /\ UNCHANGED <<disco, passi>>

\* rete.carica_pesi_txt(file)
CaricaPesiTxt ==
    /\ fase = "pronta"
    /\ LET letta == carica_pesi_txt(rete, disco)
       IN  /\ rete' = letta.rete
           /\ fase' = dopo_esito(letta.esito)
           /\ ultimo' = chiamata("carica_pesi_txt", letta.esito, letta.punto)
    /\ UNCHANGED <<disco, passi>>

\* rete.salva_pesi_txt(file)
SalvaPesiTxt ==
    /\ fase = "pronta"
    /\ disco' = [esiste |-> TRUE, righe |-> salva_pesi_txt(rete),
                 origine |-> "salvata", autore |-> rete]
    /\ ultimo' = chiamata("salva_pesi_txt", "ok", "-")
    /\ UNCHANGED <<rete, fase, passi>>

\* rete.elabora(input)
Elabora ==
    /\ fase = "pronta"
    /\ \E input \in VettoriDati :
          LET esito == elabora(rete, input)
          IN  /\ fase' = dopo_esito(esito.esito)
              /\ ultimo' = [chiamata("elabora", esito.esito, esito.punto) EXCEPT
                               !.input = input, !.uscita = esito.uscita,
                               !.indici = esito.indici]
    /\ UNCHANGED <<rete, disco, passi>>

\* every weight of the network is within MaxPeso
pesi_entro_limite ==
    \A i \in 1..Len(rete.strati) : \A k \in 1..Len(rete.strati[i].data) :
        /\ rete.strati[i].data[k] <= MaxPeso
        /\ rete.strati[i].data[k] >= -MaxPeso

\* rete.addestra(input, target)
Addestra ==
    /\ fase = "pronta"
    /\ passi < MaxPassi
    /\ pesi_entro_limite
    /\ \E input \in VettoriDati, target \in VettoriDati :
          LET esito == addestra(rete, input, target)
          IN  /\ rete' = [rete EXCEPT !.strati = esito.strati]
              /\ fase' = dopo_esito(esito.esito)
              /\ ultimo' = [chiamata("addestra", esito.esito, esito.punto) EXCEPT
                               !.input = input, !.target = target,
                               !.indici = esito.indici,
                               !.derivate = esito.derivate,
                               !.aggiornati = esito.aggiornati]
    /\ passi' = passi + 1
    /\ UNCHANGED disco

Next ==
    \/ Nuova
    \/ NuovaReteUniforme
    \/ Carica
    \/ CaricaPesiTxt
    \/ SalvaPesiTxt
    \/ Elabora
    \/ Addestra

Spec == Init /\ [][Next]_vars


(***************************************************************************)
(* The claims.                                                             *)
(***************************************************************************)
carica_chiamata == ultimo.op \in {"carica", "carica_pesi_txt"}

\* C1: round trip. Whenever the file a network saved is loaded into a new
\* network, the load succeeds and saving the loaded network writes the
\* same file again.
C1_SalvaCaricaSalva ==
    (ultimo.op = "carica" /\ disco.origine = "salvata")
        => /\ ultimo.esito = "ok"
           /\ salva_pesi_txt(rete) = disco.righe

\* the network nuova builds when every layer after the input is given the
\* one function of the uniform network r, with the weights of r
gemella(r) ==
    [r EXCEPT !.funzioni_attivazione =
        [k \in 1..Len(r.dimensioni_strati) |->
            IF k = 1 THEN Nessuna ELSE r.funzioni_attivazione[1]]]

\* C2: uniform and per-layer networks are equivalent. Every elabora and
\* addestra on a network with a single activation function ends as the same
\* call ends on the per-layer network with that function in every layer and
\* the same weights: same outcome, same output, same weights afterwards.
C2_UniformeComePerStrato ==
    /\ (ultimo.op = "elabora" /\ Len(ultimo.prima.funzioni_attivazione) = 1)
          => LET altra == elabora(gemella(ultimo.prima), ultimo.input)
             IN  /\ altra.esito = ultimo.esito
                 /\ altra.uscita = ultimo.uscita
    /\ (ultimo.op = "addestra" /\ Len(ultimo.prima.funzioni_attivazione) = 1)
          => LET altra == addestra(gemella(ultimo.prima), ultimo.input, ultimo.target)
             IN  /\ altra.esito = ultimo.esito
                 /\ altra.strati = rete.strati

\* there is one weight matrix per pair of adjacent layers, with as many rows
\* as the layer after it and as many columns as the layer before it
forma_coerente(r) ==
    /\ Len(r.strati) = Len(r.dimensioni_strati) - 1
    /\ \A i \in 1..Len(r.strati) :
          /\ r.strati[i].nrows = r.dimensioni_strati[i + 1]
          /\ r.strati[i].ncols = r.dimensioni_strati[i]

\* C3: shape invariant. The network a constructor returns, and the network
\* a load that succeeds leaves, has weight matrices that agree with its
\* layer sizes; so a file whose blocks disagree with its layer sizes is
\* never loaded with success.
C3_FormaCoerente ==
    (\/ ultimo.op \in {"nuova", "nuova_rete_uniforme"}
     \/ (carica_chiamata /\ ultimo.esito = "ok"))
        => forma_coerente(rete)

\* C4: an addestra whose input is not as long as the first layer size, or
\* whose target is not as long as the last, ends in a panic and leaves every
\* weight as it was.
C4_LunghezzeDiscordi ==
    (/\ ultimo.op = "addestra"
     /\ Len(ultimo.prima.dimensioni_strati) > 0
     /\ \/ Len(ultimo.input) # ultimo.prima.dimensioni_strati[1]
        \/ Len(ultimo.target) #
              ultimo.prima.dimensioni_strati[Len(ultimo.prima.dimensioni_strati)])
        => /\ ultimo.esito = "panic"
           /\ rete.strati = ultimo.prima.strati

\* C9: mirrored activation index. In every addestra, each derivative that
\* backpropagation takes of a stage k >= 1 uses the index of
\* funzioni_attivazione that the forward pass used to produce stage k.
C9_IndiceSpeculare ==
    ultimo.op = "addestra"
        => \A d \in 1..Len(ultimo.derivate) :
              ultimo.derivate[d].stadio >= 1
                  => ultimo.derivate[d].indice
                        = ultimo.indici[ultimo.derivate[d].stadio]

\* C10: with a single activation function, every stage of the forward pass
\* looks up index 0, and no elabora or addestra looks up an index outside
\* the list.
C10_UnaSolaFunzione ==
    (ultimo.op \in {"elabora", "addestra"}
     /\ Len(ultimo.prima.funzioni_attivazione) = 1)
        => /\ \A k \in 1..Len(ultimo.indici) : ultimo.indici[k] = 0
           /\ ultimo.punto # "funzioni_attivazione[i]"


(***************************************************************************)
(* What a file says, read off its lines without the loader: the rate of    *)
(* its first line, the codes of its second, and its blocks of weights.     *)
(***************************************************************************)
\* the text after the tag and the space that follows it
dopo_tag(linea) == SubSeq(linea, 6, Len(linea))

\* the learning rate written on the first line
tasso_scritto(righe) == parse_f64(dopo_tag(righe[1])).val

\* the non-empty codes of the activation line, in order
codici_scritti(righe) ==
    LET pezzi == split(trim(dopo_tag(righe[2])), <<";", " ">>)
        puliti == [k \in 1..Len(pezzi) |->
                      replace(replace(pezzi[k], <<";">>, <<>>), <<" ">>, <<>>)]
    IN  SelectSeq(puliti, LAMBDA c : c # <<>>)

\* the functions whose code the loader recognizes as it stands
Riconosciute == {Sigmoide, ReLU, Tanh, Softplus, Swish, Lineare}

\* a code LeakyReLU_<alpha> whose alpha is a number
codice_leaky(c) ==
    /\ starts_with(c, <<"L", "e", "a", "k", "y", "R", "e", "L", "U", "_">>)
    /\ parse_f64(SubSeq(c, 11, Len(c))).ok

\* the function a code stands for: Nessuna when it is not recognized
funzione_attesa(c) ==
    IF \E f \in Riconosciute : sigla(f) = c
    THEN CHOOSE f \in Riconosciute : sigla(f) = c
    ELSE IF codice_leaky(c) THEN LeakyReLU(parse_f64(SubSeq(c, 11, Len(c))).val)
    ELSE Nessuna

\* C5: every code that is not recognized gives Nessuna at
\* its position and never makes the load fail; the loaded list has one
\* entry per non-empty code of the file, in the order of the file.
C5_OgniCodiceIgnoto ==
    (carica_chiamata /\ disco.esiste /\ ultimo.punto # "tasso")
        => LET codici == codici_scritti(disco.righe)
           IN  /\ ultimo.punto # "alfa"
               /\ rete.funzioni_attivazione
                     = [k \in 1..Len(codici) |-> funzione_attesa(codici[k])]

\* the learning rate a load starts from: that of the network it is called
\* on, and 0.0 for the new network of carica
tasso_precedente ==
    IF ultimo.op = "carica" THEN 0 ELSE ultimo.prima.tasso_apprendimento

\* C6: after a load, the learning rate is the one of the file when that is
\* above zero; when it is zero or below, the rate is the one from before
\* the load, and the load has not failed on that line.
C6_TassoPositivo ==
    (carica_chiamata /\ disco.esiste)
        => /\ ultimo.punto # "tasso"
           /\ rete.tasso_apprendimento
                 = IF tasso_scritto(disco.righe) > 0
                   THEN tasso_scritto(disco.righe)
                   ELSE tasso_precedente

\* C6 witness: a file whose rate is zero or below has been loaded with
\* success into a network whose rate was another, and the rate is kept
C6_Testimone ==
    /\ ultimo.op = "carica_pesi_txt"
    /\ ultimo.esito = "ok"
    /\ tasso_scritto(disco.righe) <= 0
    /\ ultimo.prima.tasso_apprendimento # tasso_scritto(disco.righe)
    /\ rete.tasso_apprendimento = ultimo.prima.tasso_apprendimento

RECURSIVE blocchi_da(_, _, _)
blocchi_da(righe, aperto, chiusi) ==
    IF righe = <<>> THEN chiusi
    ELSE IF trim(Head(righe)) = FILE_STRATO
         THEN blocchi_da(Tail(righe), <<>>, Append(chiusi, aperto))
         ELSE blocchi_da(Tail(righe), Append(aperto, Len(split_whitespace(Head(righe)))),
                         chiusi)

\* the blocks of the file, one per separator line: each the numbers of
\* values of the rows between the separator and the one before it
blocchi_scritti(righe) == blocchi_da(SubSeq(righe, 4, Len(righe)), <<>>, <<>>)

blocco_discorde(b) == \E r \in 1..Len(b) : b[r] # b[1]

\* the load read the three header lines and every row of weights
oltre_intestazione ==
    /\ carica_chiamata
    /\ disco.esiste
    /\ ultimo.punto \notin {"tasso", "alfa", "dimensioni", "funzioni_attivazione", "peso"}

\* one matrix per block, with the rows and the columns of its block
matrici_dei_blocchi(strati, blocchi) ==
    /\ Len(strati) = Len(blocchi)
    /\ \A k \in 1..Len(blocchi) :
          /\ strati[k].nrows = Len(blocchi[k])
          /\ strati[k].ncols = blocchi[k][1]

\* C7 as first stated: a separator with no row before it makes the load
\* return the format error; every separator with at least one row before it
\* closes one matrix, made of the rows since the separator before.
C7_OgniSeparatore ==
    oltre_intestazione
        => LET blocchi == blocchi_scritti(disco.righe)
           IN  IF \E k \in 1..Len(blocchi) : blocchi[k] = <<>>
               THEN ultimo.punto = "strato_vuoto"
               ELSE /\ ultimo.esito = "ok"
                    /\ matrici_dei_blocchi(rete.strati, blocchi)

\* C7 (amended): the first separator whose block is empty or has rows of
\* different lengths ends the load: with the format error when the block is
\* empty, with a panic when its rows differ in length. When no block is
\* such, every separator closes one matrix, made of the rows since the
\* separator before.
C7_Separatore ==
    oltre_intestazione
        => LET blocchi == blocchi_scritti(disco.righe)
               guasti == {k \in 1..Len(blocchi) :
                             blocchi[k] = <<>> \/ blocco_discorde(blocchi[k])}
           IN  IF guasti = {}
               THEN /\ ultimo.esito = "ok"
                    /\ matrici_dei_blocchi(rete.strati, blocchi)
               ELSE LET primo == CHOOSE k \in guasti : \A h \in guasti : k <= h
                    IN  IF blocchi[primo] = <<>>
                        THEN /\ ultimo.punto = "strato_vuoto"
                             /\ ultimo.esito
                                   = IF ultimo.op = "carica" THEN "panic" ELSE "err"
                        ELSE /\ ultimo.esito = "panic"
                             /\ ultimo.punto \in {"trasponi", "from_vec"}

\* C7 witness: carica_pesi_txt has returned the format error on a file whose
\* second separator follows the first with no row between
C7_Testimone ==
    /\ ultimo.op = "carica_pesi_txt"
    /\ ultimo.esito = "err"
    /\ ultimo.punto = "strato_vuoto"
    /\ blocchi_scritti(disco.righe) = <<<<1>>, <<>>>>

\* the activation line salva_pesi_txt is to write for a list of functions
linea_attesa(funzioni) ==
    FILE_INFO_ATTIVAZIONE \o <<" ">>
        \o concat([k \in 1..Len(funzioni) |->
                      IF funzioni[k].tipo = "LeakyReLU"
                      THEN <<"L", "e", "a", "k", "y", "R", "e", "L", "U", "_">> \o f64_to_string(funzioni[k].alpha)
                               \o <<";", " ">>
                      ELSE sigla(funzioni[k]) \o <<";", " ">>])

\* C8: a saved file carries LeakyReLU_<alpha> for every LeakyReLU and the
\* bare code for every other function; and when the file saved by a network
\* with one function per layer is loaded into a new network, every position
\* has the function of the network that saved it, each LeakyReLU with the
\* alpha it had.
C8_AlfaConservato ==
    /\ disco.origine = "salvata"
          => disco.righe[2] = linea_attesa(disco.autore.funzioni_attivazione)
    /\ (/\ ultimo.op = "carica"
        /\ disco.origine = "salvata"
        /\ Len(disco.autore.funzioni_attivazione)
              = Len(disco.autore.dimensioni_strati))
          => /\ ultimo.esito = "ok"
             /\ rete.funzioni_attivazione = disco.autore.funzioni_attivazione

\* C8 witness: the file of a network with a LeakyReLU after its input layer
\* has been loaded, and the loaded network has that LeakyReLU in its place
C8_Testimone ==
    /\ ultimo.op = "carica"
    /\ ultimo.esito = "ok"
    /\ disco.origine = "salvata"
    /\ Len(disco.autore.funzioni_attivazione) = 3
    /\ disco.autore.funzioni_attivazione[2] = LeakyReLU(1)
    /\ disco.autore.funzioni_attivazione[3] = Lineare
    /\ rete.funzioni_attivazione[2] = LeakyReLU(1)
    /\ rete.funzioni_attivazione[3] = Lineare

\* a call of elabora or addestra: both run the forward pass
passata_chiamata == ultimo.op \in {"elabora", "addestra"}

\* C11: when the activation list has n >= 2 entries, the forward pass looks
\* up for stage k the index ((k-1) mod (n-1)) + 1, never index 0; for a
\* network with one entry per layer, stage k uses the entry of layer k.
C11_IndiceCiclico ==
    (passata_chiamata /\ Len(ultimo.prima.funzioni_attivazione) >= 2)
        => LET n == Len(ultimo.prima.funzioni_attivazione)
           IN  /\ \A k \in 1..Len(ultimo.indici) :
                     /\ ultimo.indici[k] = ((k - 1) % (n - 1)) + 1
                     /\ ultimo.indici[k] # 0
               /\ n = Len(ultimo.prima.strati) + 1
                     => \A k \in 1..Len(ultimo.indici) : ultimo.indici[k] = k

\* C11 witness: a forward pass over two weight matrices with two activations
\* has ended, the second stage having gone back to index 1
C11_Testimone ==
    /\ ultimo.op = "elabora"
    /\ ultimo.esito = "ok"
    /\ Len(ultimo.prima.funzioni_attivazione) = 2
    /\ Len(ultimo.prima.strati) = 2
    /\ ultimo.indici = <<1, 1>>

\* the layer sizes written on the topology line
dimensioni_scritte(righe) == split(trim(dopo_tag(righe[3])), <<",", " ">>)

\* C12: loading a file whose activation line has fewer codes than its
\* topology line has layer sizes ends without failure, and the loaded
\* network keeps the shorter activation list.
C12_MenoFunzioniCheStrati ==
    (/\ carica_chiamata
     /\ disco.esiste
     /\ ultimo.punto \notin {"tasso", "alfa", "dimensioni"}
     /\ Len(codici_scritti(disco.righe)) < Len(dimensioni_scritte(disco.righe)))
        => /\ ultimo.esito = "ok"
           /\ Len(rete.funzioni_attivazione) = Len(codici_scritti(disco.righe))

\* the stages of the forward pass of the last call
uscite_passata == propagazione_avanti(ultimo.prima, ultimo.input).uscite

\* the function whose derivative the last call took for a stage
funzione_derivata(stadio) ==
    LET d == CHOOSE d \in 1..Len(ultimo.derivate) :
                 ultimo.derivate[d].stadio = stadio
    IN  ultimo.prima.funzioni_attivazione[ultimo.derivate[d].indice + 1]

RECURSIVE delta_atteso(_), peso_atteso(_)
\* the delta of stage m: from the target at the last stage, and below it
\* from the matrix above as it is after its update
delta_atteso(m) ==
    LET uscita == uscite_passata[m + 1]
    IN  IF m = Len(ultimo.prima.strati)
        THEN [r \in 1..Len(uscita) |->
                 (ultimo.target[r] - uscita[r])
                     * derivata(funzione_derivata(m), uscita[r])]
        ELSE LET sopra == peso_atteso(m + 1)
                 delta == delta_atteso(m + 1)
             IN  [r \in 1..Len(uscita) |->
                     somma([k \in 1..sopra.nrows |-> el(sopra, k, r) * delta[k]],
                           sopra.nrows)
                         * derivata(funzione_derivata(m), uscita[r])]

\* matrix m (into stage m) after its update with delta and stage m - 1
peso_atteso(m) ==
    LET prima == ultimo.prima.strati[m]
    IN  [prima EXCEPT !.data =
            [k \in 1..Len(prima.data) |->
                prima.data[k]
                    + ultimo.prima.tasso_apprendimento
                        * delta_atteso(m)[((k - 1) % prima.nrows) + 1]
                        * uscite_passata[m][((k - 1) \div prima.nrows) + 1]]]

\* C13: an addestra that ends updates the matrices from the last to the
\* first, each once, matrix i with delta and the stage before it; the error
\* handed to the layer below comes from the matrix as updated, and no delta
\* is computed below the first matrix.
C13_UltimoPrimo ==
    (ultimo.op = "addestra" /\ ultimo.esito = "ok")
        => LET n == Len(ultimo.prima.strati)
           IN  /\ ultimo.aggiornati = [k \in 1..n |-> n - k]
               /\ \A d \in 1..Len(ultimo.derivate) : ultimo.derivate[d].stadio >= 1
               /\ Len(ultimo.derivate) = n
               /\ rete.strati = [m \in 1..n |-> peso_atteso(m)]

\* C13 witness: an addestra over two matrices has ended, the first matrix
\* changed by an error that went through the second
C13_Testimone ==
    /\ ultimo.op = "addestra"
    /\ ultimo.esito = "ok"
    /\ ultimo.aggiornati = <<1, 0>>
    /\ rete.strati[2] # ultimo.prima.strati[2]
    /\ rete.strati[1] # ultimo.prima.strati[1]

RECURSIVE righe_blocchi_da(_, _, _)
righe_blocchi_da(righe, aperto, chiusi) ==
    IF righe = <<>> THEN chiusi
    ELSE IF trim(Head(righe)) = FILE_STRATO
         THEN righe_blocchi_da(Tail(righe), <<>>, Append(chiusi, aperto))
         ELSE righe_blocchi_da(Tail(righe),
                               Append(aperto, split_whitespace(Head(righe))), chiusi)

\* the blocks of the file, one per separator line: each the rows of tokens
\* between the separator and the one before it
righe_blocchi(righe) == righe_blocchi_da(SubSeq(righe, 4, Len(righe)), <<>>, <<>>)

\* C14: after a load that ends well, the matrix of every block of r rows of
\* c tokens has r rows and c columns, its entry (i, j) is the j-th token of
\* the i-th row of the block, and salva_pesi_txt writes for it the rows of
\* the block again.
C14_NonTrasposta ==
    (carica_chiamata /\ ultimo.esito = "ok")
        => LET blocchi == righe_blocchi(disco.righe)
           IN  /\ Len(rete.strati) = Len(blocchi)
               /\ \A k \in 1..Len(blocchi) :
                     LET m == rete.strati[k]
                         b == blocchi[k]
                     IN  /\ m.nrows = Len(b)
                         /\ m.ncols = Len(b[1])
                         /\ \A i \in 1..Len(b) : \A j \in 1..Len(b[i]) :
                               el(m, i, j) = parse_f64(b[i][j]).val
                         /\ \A i \in 1..Len(b) :
                               split_whitespace(righe_strato(m)[i])
                                   = [j \in 1..Len(b[i]) |->
                                         f64_to_string(parse_f64(b[i][j]).val)]

\* C14 witness: the block of rows 1 2 and 3 4 has been loaded, and the entry
\* of row 1 and column 2 is 2, that of row 2 and column 1 is 3
C14_Testimone ==
    /\ carica_chiamata
    /\ ultimo.esito = "ok"
    /\ disco.righe = FileQuadrato
    /\ el(rete.strati[1], 1, 2) = 2
    /\ el(rete.strati[1], 2, 1) = 3

\* two networks that differ at most in the values of their weights
stessa_forma(a, b) ==
    /\ a.tasso_apprendimento = b.tasso_apprendimento
    /\ a.funzioni_attivazione = b.funzioni_attivazione
    /\ a.dimensioni_strati = b.dimensioni_strati
    /\ Len(a.strati) = Len(b.strati)
    /\ \A k \in 1..Len(a.strati) :
          /\ a.strati[k].nrows = b.strati[k].nrows
          /\ a.strati[k].ncols = b.strati[k].ncols
          /\ Len(a.strati[k].data) = Len(b.strati[k].data)

\* C15: elabora changes nothing of the network, and addestra changes at
\* most the values in its weight matrices: the learning rate, the
\* activation list, the layer sizes and the number and the dimensions of the
\* matrices are after every such call what they were before it.
C15_SoloIPesi ==
    [][/\ Elabora => rete' = rete
       /\ Addestra => stessa_forma(rete', rete)]_vars

\* C15 witness: an addestra has changed the values of a matrix that is not
\* square, and the network has the form it had
C15_Testimone ==
    /\ ultimo.op = "addestra"
    /\ ultimo.esito = "ok"
    /\ rete.strati # ultimo.prima.strati
    /\ \E k \in 1..Len(rete.strati) : rete.strati[k].nrows # rete.strati[k].ncols
    /\ stessa_forma(rete, ultimo.prima)

\* C16: when carica_pesi_txt returns an error, the weight matrices, the
\* activation list, the learning rate and the layer sizes of the network
\* are what they were before the call.
C16_TuttoONiente ==
    (ultimo.op = "carica_pesi_txt" /\ ultimo.esito = "err")
        => rete = ultimo.prima

=============================================================================
